---------------------------- MODULE Spec2Model ----------------------------
(***************************************************************************)
(* Session state machine of the YouTube Deep Comprehension client          *)
(* (frontend/src/App.tsx): the React state of the App component, the       *)
(* WebSocket connections it opens, and one action per handler.             *)
(*                                                                         *)
(* Nullable values are options: None is null/undefined (or any falsy       *)
(* payload), Some(v) a present value.  Strings that the code indexes       *)
(* (the URL, the video id) are sequences of one-character strings.         *)
(***************************************************************************)
EXTENDS Integers, Sequences, FiniteSets, TLC

None == <<>>
Some(v) == <<v>>
Val(o) == o[1]

(***************************************************************************)
(* Bounds of the model.                                                    *)
(***************************************************************************)
\* connections opened in one run
MaxConns == 2
\* entries of the progress log
MaxProgress == 4

(***************************************************************************)
(* extractVideoId: the first capture group of the first pattern that       *)
(* matches anywhere in the URL (leftmost match, alternatives in order,     *)
(* greedy capture), or None.                                               *)
(***************************************************************************)
WatchLit == <<"y", "o", "u", "t", "u", "b", "e", ".", "c", "o", "m", "/", "w", "a", "t", "c", "h", "?", "v", "=">>
ShortLit == <<"y", "o", "u", "t", "u", ".", "b", "e", "/">>
EmbedLit == <<"y", "o", "u", "t", "u", "b", "e", ".", "c", "o", "m", "/", "e", "m", "b", "e", "d", "/">>
ShortsLit == <<"y", "o", "u", "t", "u", "b", "e", ".", "c", "o", "m", "/", "s", "h", "o", "r", "t", "s", "/">>

\* the two regular expressions, each a list of alternative literal prefixes
\* followed by the capture group ([^&\n?#]+)
patterns == << <<WatchLit, ShortLit, EmbedLit>>, <<ShortsLit>> >>

\* the capture group without # among the excluded characters
StopChars_C29 == {"&", "\n", "?"}

\* the characters the capture group excludes
StopChars == {"&", "\n", "?", "#"}

\* the literal lit occurs in url at position i
LitAt(url, i, lit) ==
    /\ i + Len(lit) - 1 <= Len(url)
    /\ \A k \in 1..Len(lit) : url[i + k - 1] = lit[k]

\* the capture group matches at position j: at least one non-stop character
CaptureAt(url, j) == j <= Len(url) /\ url[j] \notin StopChars

\* the end of the greedy capture starting at j: the last character before
\* the next stop character (or the end of the URL)
RECURSIVE CaptureEnd(_, _)
CaptureEnd(url, j) ==
    IF j < Len(url) /\ url[j + 1] \notin StopChars THEN CaptureEnd(url, j + 1) ELSE j

\* pattern p matches at position i: one of its alternatives occurs there,
\* followed by the capture group
RECURSIVE AltAt(_, _, _, _)
AltAt(url, i, p, a) ==
    IF a > Len(p) THEN 0
    ELSE IF LitAt(url, i, p[a]) /\ CaptureAt(url, i + Len(p[a])) THEN a
    ELSE AltAt(url, i, p, a + 1)

\* url.match(pattern) searching from position i: None, or Some(the first
\* capture group) of the leftmost match
RECURSIVE RegexMatch(_, _, _)
RegexMatch(url, p, i) ==
    IF i > Len(url) THEN None
    ELSE LET a == AltAt(url, i, p, 1)
         IN  IF a = 0 THEN RegexMatch(url, p, i + 1)
             ELSE Some(SubSeq(url, i + Len(p[a]), CaptureEnd(url, i + Len(p[a]))))

RECURSIVE FirstMatch(_, _)
FirstMatch(url, n) ==
    IF n > Len(patterns) THEN None
    ELSE LET match == RegexMatch(url, patterns[n], 1)
         IN  IF match # None THEN match ELSE FirstMatch(url, n + 1)

\* extractVideoId taking whatever was typed as the id
extractVideoId_C20(url) == IF url = <<>> THEN None ELSE Some(url)

extractVideoId(url) == FirstMatch(url, 1)

\* String.prototype.trim, as far as emptiness goes: the URL without its
\* leading and trailing white space
WhiteSpace == {" ", "\n", "\t"}
RECURSIVE TrimLeft(_)
TrimLeft(s) ==
    IF s # <<>> /\ Head(s) \in WhiteSpace THEN TrimLeft(Tail(s)) ELSE s
RECURSIVE TrimRight(_)
TrimRight(s) ==
    IF s # <<>> /\ s[Len(s)] \in WhiteSpace
    THEN TrimRight(SubSeq(s, 1, Len(s) - 1)) ELSE s
trim(s) == TrimRight(TrimLeft(s))

(***************************************************************************)
(* Inputs.                                                                 *)
(***************************************************************************)
UrlWatch == <<"h", "t", "t", "p", "s", ":", "/", "/", "w", "w", "w", ".", "y", "o", "u", "t", "u", "b", "e", ".", "c", "o", "m", "/", "w", "a", "t", "c", "h", "?", "v", "=", "X", "Y", "Z">>
UrlInvalid == <<"h", "t", "t", "p", "s", ":", "/", "/", "e", "x", "a", "m", "p", "l", "e", ".", "c", "o", "m", "/", "n", "o", "t", "-", "a", "-", "v", "i", "d", "e", "o">>
UrlShort == <<"y", "o", "u", "t", "u", ".", "b", "e", "/", "a", "b">>
UrlNoVideo == <<"a", "b">>
UrlBlank == <<" ", " ">>
UrlNoId == <<"y", "o", "u", "t", "u", ".", "b", "e", "/">>

\* result payloads a backend message can carry (JSON objects; the fields the
\* client reads)
PayloadX == [key_concepts |-> <<"X">>, questions |-> <<0>>,
             main_thesis |-> "T", argument_chains |-> <<"A">>,
             connections |-> <<"C">>]
PayloadY == [key_concepts |-> <<"Y", "Z">>, questions |-> <<1, 0>>,
             main_thesis |-> "U", argument_chains |-> <<"B", "D">>,
             connections |-> <<"E">>]

(***************************************************************************)
(* WebSocketEvent: an inbound message after JSON.parse.  A field that is   *)
(* absent is None; a payload that is present is an object.                 *)
(***************************************************************************)
WebSocketEvent(t, id, msg, out, ev, ph) ==
    [type |-> t, id |-> id, message |-> msg, output |-> out, event |-> ev, phase |-> ph]

\* the values of data.message
TextOpts == {None, Some(""), Some("boom")}

\* data.message || dflt
OrElse(o, dflt) == IF o = None \/ o = Some("") THEN dflt ELSE Val(o)

(***************************************************************************)
(* State: the useState cells of App, the module-level socket reference,    *)
(* and the sockets the component has created.                              *)
(***************************************************************************)
VARIABLES
    videoUrl, videoId,
    notes, phase2, phase3, phase4, phase5,
    quizAnswers, quizSubmitted, quizScore,
    loading, loadingPhase, error,
    progress, progressPercent, expandedSections, activePhase,
    wsRef,
    \* the sockets created so far, in creation order; wsRef holds an index.
    \* Each: phase (the endpoint), status, the values of loading and
    \* loadingPhase its handlers closed over, the request its onopen sends,
    \* and stale (history: an accepted URL submission came after it was
    \* opened)
    conns,
    \* history: the messages processed on the socket of the latest submission
    received

resultVars == <<notes, phase2, phase3, phase4, phase5>>
quizVars == <<quizAnswers, quizSubmitted, quizScore>>
viewVars == <<progress, progressPercent, expandedSections, activePhase>>
vars == <<videoUrl, videoId, notes, phase2, phase3, phase4, phase5,
          quizAnswers, quizSubmitted, quizScore, loading, loadingPhase, error,
          progress, progressPercent, expandedSections, activePhase, wsRef,
          conns, received>>

\* the result slot of phase n
Slot(n) ==
    CASE n = 1 -> notes [] n = 2 -> phase2 [] n = 3 -> phase3
      [] n = 4 -> phase4 [] n = 5 -> phase5

Init ==
    /\ videoUrl = <<>>
    /\ videoId = None
    /\ notes = None /\ phase2 = None /\ phase3 = None /\ phase4 = None /\ phase5 = None
    /\ quizAnswers = {}
    /\ quizSubmitted = FALSE
    /\ quizScore = None
    /\ loading = FALSE
    /\ loadingPhase = None
    /\ error = None
    /\ progress = <<>>
    /\ progressPercent = 0
    /\ expandedSections = {"concepts"}
    /\ activePhase = 1
    /\ wsRef = None
    /\ conns = <<>>
    /\ received = <<>>

(***************************************************************************)
(* new WebSocket(...): a socket in state CONNECTING whose handlers close   *)
(* over the current render's loading and loadingPhase, and over the state  *)
(* its onopen puts into the request.                                       *)
(***************************************************************************)
\* o?.f || dflt for a stored result o
Field(o, f, dflt) == IF o = None THEN dflt ELSE Val(o)[f]

\* the object the onopen of a socket of phase n passes to JSON.stringify
\* and sends, by key; an argument chain stands for its conclusion, and
\* knowledge_level, which nothing else reads, is left out.  Phases 3 and 4
\* read their result without ?. and ||: their guards keep it from being null
Request(n) ==
    CASE n = 1 -> [video_url |-> videoUrl']
      [] n = 2 -> [video_id |-> videoId]
      [] n = 3 -> [key_concepts |-> Field(notes, "key_concepts", <<>>)]
      [] n = 4 -> [thesis |-> Field(phase2, "main_thesis", ""),
                   argument_chains |-> Field(phase2, "argument_chains", <<>>),
                   claims |-> Field(phase2, "argument_chains", <<>>)]
      [] n = 5 -> [key_concepts |-> Field(notes, "key_concepts", <<>>),
                   thesis |-> Field(phase2, "main_thesis", ""),
                   argument_chains |-> Field(phase2, "argument_chains", <<>>),
                   connections |-> Field(phase3, "connections", <<>>)]

NewWebSocket(n) ==
    [phase |-> n, status |-> "connecting", loading |-> loading,
     loadingPhase |-> loadingPhase, stale |-> FALSE, request |-> Request(n)]

\* the sockets that are not closed yet
OpenConns == {c \in 1..Len(conns) : conns[c].status # "closed"}

\* generateInsights without the reset of the quiz attempt
generateInsights_C21(url, throws) ==
    LET extractedId == extractVideoId(url) IN
    /\ videoUrl' = url
    /\ IF trim(url) = <<>>
       THEN /\ error' = Some("Please enter a YouTube URL")
            /\ UNCHANGED <<videoId, resultVars, quizVars, loading,
                           loadingPhase, viewVars, wsRef, conns, received>>
       ELSE IF extractedId = None
       THEN /\ error' = Some("Invalid YouTube URL")
            /\ UNCHANGED <<videoId, resultVars, quizVars, loading,
                           loadingPhase, viewVars, wsRef, conns, received>>
       ELSE /\ videoId' = extractedId
            /\ loadingPhase' = Some(1)
            /\ notes' = None /\ phase2' = None /\ phase3' = None
            /\ phase4' = None /\ phase5' = None
            /\ UNCHANGED quizVars
            /\ progress' = <<>>
            /\ progressPercent' = 0
            /\ activePhase' = 1
            /\ received' = <<>>
            /\ UNCHANGED expandedSections
            /\ IF throws
               THEN /\ error' = Some("Failed to connect via WebSocket")
                    /\ loading' = FALSE
                    /\ conns' = [c \in 1..Len(conns) |-> [conns[c] EXCEPT !.stale = TRUE]]
                    /\ UNCHANGED wsRef
               ELSE /\ error' = None
                    /\ loading' = TRUE
                    /\ conns' = Append([c \in 1..Len(conns) |->
                                           [conns[c] EXCEPT !.stale = TRUE]],
                                       NewWebSocket(1))
                    /\ wsRef' = Some(Len(conns) + 1)

(***************************************************************************)
(* generateInsights (phase 1): validation, session reset, socket creation. *)
(* url: the content of the URL field (setVideoUrl, the field's onChange)   *)
(* when the form is submitted; throws: whether the WebSocket constructor   *)
(* throws (the catch block).                                               *)
(***************************************************************************)
generateInsights(url, throws) ==
    LET extractedId == extractVideoId(url) IN
    /\ videoUrl' = url
    /\ IF trim(url) = <<>>
       THEN /\ error' = Some("Please enter a YouTube URL")
            /\ UNCHANGED <<videoId, resultVars, quizVars, loading,
                           loadingPhase, viewVars, wsRef, conns, received>>
       ELSE IF extractedId = None
       THEN /\ error' = Some("Invalid YouTube URL")
            /\ UNCHANGED <<videoId, resultVars, quizVars, loading,
                           loadingPhase, viewVars, wsRef, conns, received>>
       ELSE /\ videoId' = extractedId
            /\ loadingPhase' = Some(1)
            /\ notes' = None /\ phase2' = None /\ phase3' = None
            /\ phase4' = None /\ phase5' = None
            /\ quizAnswers' = {} /\ quizSubmitted' = FALSE /\ quizScore' = None
            /\ progress' = <<>>
            /\ progressPercent' = 0
            /\ activePhase' = 1
            /\ received' = <<>>
            /\ UNCHANGED expandedSections
            /\ IF throws
               THEN /\ error' = Some("Failed to connect via WebSocket")
                    /\ loading' = FALSE
                    /\ conns' = [c \in 1..Len(conns) |-> [conns[c] EXCEPT !.stale = TRUE]]
                    /\ UNCHANGED wsRef
               ELSE /\ error' = None
                    /\ loading' = TRUE
                    /\ conns' = Append([c \in 1..Len(conns) |->
                                           [conns[c] EXCEPT !.stale = TRUE]],
                                       NewWebSocket(1))
                    /\ wsRef' = Some(Len(conns) + 1)

\* ws.onopen of the phase-1 socket
Phase1OnOpen ==
    /\ progress' = Append(progress, "Connected to server...")
    /\ progressPercent' = 5
    /\ UNCHANGED <<videoUrl, videoId, resultVars, quizVars, loading, loadingPhase,
                   error, expandedSections, activePhase, wsRef>>

\* the progress entries of the phase-1 step_started and step_completed cases
Phase1StartMsg(m) ==
    IF m.id = Some("caption_extractor") THEN "Downloading captions from YouTube..."
    ELSE IF m.id = Some("key_concepts_extractor") THEN "Extracting key concepts with AI..."
    ELSE "Starting: " \o (IF m.id = None THEN "undefined" ELSE Val(m.id))

Phase1CompleteMsg(m) ==
    IF m.id = Some("caption_extractor") THEN "Captions extracted successfully"
    ELSE IF m.id = Some("key_concepts_extractor") THEN "Key concepts extracted"
    ELSE "Completed: " \o (IF m.id = None THEN "undefined" ELSE Val(m.id))

\* the cases of the phase-1 socket's ws.onmessage
Phase1Started(m) ==
    /\ progress' = Append(progress,
           OrElse(m.message, "Workflow started"))
    /\ progressPercent' = 10
    /\ UNCHANGED <<videoUrl, videoId, resultVars, quizVars, loading,
                   loadingPhase, error, expandedSections, activePhase, wsRef>>

Phase1WorkflowStarted(m) ==
    /\ progress' = Append(progress, "Extracting video captions...")
    /\ progressPercent' = 15
    /\ UNCHANGED <<videoUrl, videoId, resultVars, quizVars, loading,
                   loadingPhase, error, expandedSections, activePhase, wsRef>>

Phase1StepStarted(m) ==
    /\ progress' = Append(progress, Phase1StartMsg(m))
    /\ progressPercent' =
           IF m.id = Some("caption_extractor") THEN 25
           ELSE IF m.id = Some("key_concepts_extractor") THEN 50
           ELSE progressPercent
    /\ UNCHANGED <<videoUrl, videoId, resultVars, quizVars, loading,
                   loadingPhase, error, expandedSections, activePhase, wsRef>>

Phase1StepCompleted(m) ==
    /\ progress' = Append(progress, Phase1CompleteMsg(m))
    /\ progressPercent' =
           IF m.id = Some("caption_extractor") THEN 45
           ELSE IF m.id = Some("key_concepts_extractor") THEN 95
           ELSE progressPercent
    /\ UNCHANGED <<videoUrl, videoId, resultVars, quizVars, loading,
                   loadingPhase, error, expandedSections, activePhase, wsRef>>

Phase1WorkflowOutput(m) ==
    /\ notes' = IF m.event # None THEN m.event ELSE notes
    /\ UNCHANGED <<videoUrl, videoId, phase2, phase3, phase4, phase5,
                   quizVars, loading, loadingPhase, error, viewVars, wsRef>>

\* the phase-1 case of phase_completed without setLoadingPhase(null)
Phase1PhaseCompleted_C1(m) ==
    /\ notes' = IF m.phase = Some(1) /\ m.output # None THEN m.output ELSE notes
    /\ activePhase' = IF m.phase = Some(1) THEN 1 ELSE activePhase
    /\ progress' =
           IF m.phase = Some(1)
           THEN Append(progress, "Phase 1 complete - Key concepts ready!")
           ELSE IF m.phase = Some(2)
           THEN Append(progress, "Phase 2 complete - Thesis & arguments ready!")
           ELSE progress
    /\ progressPercent' = IF m.phase \in {Some(1), Some(2)} THEN 100
                          ELSE progressPercent
    /\ loading' = IF m.phase = Some(1) THEN FALSE ELSE loading
    /\ loadingPhase' = IF m.phase = Some(2) THEN None ELSE loadingPhase
    /\ UNCHANGED <<videoUrl, videoId, phase2, phase3, phase4, phase5,
                   quizVars, error, expandedSections, wsRef>>

Phase1PhaseCompleted(m) ==
    /\ notes' = IF m.phase = Some(1) /\ m.output # None THEN m.output ELSE notes
    /\ activePhase' = IF m.phase = Some(1) THEN 1 ELSE activePhase
    /\ progress' =
           IF m.phase = Some(1)
           THEN Append(progress, "Phase 1 complete - Key concepts ready!")
           ELSE IF m.phase = Some(2)
           THEN Append(progress, "Phase 2 complete - Thesis & arguments ready!")
           ELSE progress
    /\ progressPercent' = IF m.phase \in {Some(1), Some(2)} THEN 100
                          ELSE progressPercent
    /\ loading' = IF m.phase = Some(1) THEN FALSE ELSE loading
    /\ loadingPhase' = IF m.phase \in {Some(1), Some(2)} THEN None
                       ELSE loadingPhase
    /\ UNCHANGED <<videoUrl, videoId, phase2, phase3, phase4, phase5,
                   quizVars, error, expandedSections, wsRef>>

\* case 'phase_started' without the test of data.phase
Phase1PhaseStarted_C15(m) ==
    /\ activePhase' = 2
    /\ loadingPhase' = Some(2)
    /\ progress' = Append(progress, "Phase 2: Extracting thesis & arguments...")
    /\ UNCHANGED <<videoUrl, videoId, resultVars, quizVars, loading,
                   error, progressPercent, expandedSections, wsRef>>

\* case 'phase_started' without setActivePhase(2)
Phase1PhaseStarted_C33(m) ==
    IF m.phase = Some(2)
    THEN /\ loadingPhase' = Some(2)
         /\ progress' = Append(progress, "Phase 2: Extracting thesis & arguments...")
         /\ UNCHANGED <<videoUrl, videoId, resultVars, quizVars, loading,
                        error, progressPercent, expandedSections, activePhase, wsRef>>
    ELSE UNCHANGED <<videoUrl, videoId, resultVars, quizVars, loading,
                     loadingPhase, error, viewVars, wsRef>>

Phase1PhaseStarted(m) ==
    IF m.phase = Some(2)
    THEN /\ activePhase' = 2
         /\ loadingPhase' = Some(2)
         /\ progress' = Append(progress, "Phase 2: Extracting thesis & arguments...")
         /\ UNCHANGED <<videoUrl, videoId, resultVars, quizVars, loading,
                        error, progressPercent, expandedSections, wsRef>>
    ELSE UNCHANGED <<videoUrl, videoId, resultVars, quizVars, loading,
                     loadingPhase, error, viewVars, wsRef>>

Phase1PhaseOutput(m) ==
    IF m.phase = Some(2) /\ m.output # None
    THEN /\ phase2' = m.output
         /\ activePhase' = 2
         /\ loadingPhase' = None
         /\ expandedSections' = {"thesis"}
         /\ progress' = Append(progress, "Thesis & argument chains received")
         /\ UNCHANGED <<videoUrl, videoId, notes, phase3, phase4, phase5,
                        quizVars, loading, error, progressPercent, wsRef>>
    ELSE UNCHANGED <<videoUrl, videoId, resultVars, quizVars, loading,
                     loadingPhase, error, viewVars, wsRef>>

Phase1Error(m) ==
    /\ error' = Some(OrElse(m.message, "An error occurred"))
    /\ loading' = FALSE
    /\ loadingPhase' = None
    /\ UNCHANGED <<videoUrl, videoId, resultVars, quizVars, viewVars, wsRef>>

Phase1StepFailed(m) ==
    /\ error' = Some("Step failed: " \o
                   (IF m.message = None THEN "undefined" ELSE Val(m.message)))
    /\ loading' = FALSE
    /\ loadingPhase' = None
    /\ UNCHANGED <<videoUrl, videoId, resultVars, quizVars, viewVars, wsRef>>

\* ws.onmessage of the phase-1 socket: the switch on data.type
Phase1OnMessage(m) ==
    CASE m.type = "started" -> Phase1Started(m)
      [] m.type = "workflow_started" -> Phase1WorkflowStarted(m)
      [] m.type = "step_started" -> Phase1StepStarted(m)
      [] m.type = "step_completed" -> Phase1StepCompleted(m)
      [] m.type \in {"workflow_output", "completed"} -> Phase1WorkflowOutput(m)
      [] m.type = "phase_completed" -> Phase1PhaseCompleted(m)
      [] m.type = "phase_started" -> Phase1PhaseStarted(m)
      [] m.type = "phase_output" -> Phase1PhaseOutput(m)
      [] m.type = "error" -> Phase1Error(m)
      [] m.type = "step_failed" -> Phase1StepFailed(m)
      [] OTHER ->
            UNCHANGED <<videoUrl, videoId, resultVars, quizVars, loading,
                        loadingPhase, error, viewVars, wsRef>>

\* ws.onerror of the phase-1 socket
Phase1OnError ==
    /\ error' = Some("WebSocket connection error. Make sure the backend is running.")
    /\ loading' = FALSE
    /\ UNCHANGED <<videoUrl, videoId, resultVars, quizVars, loadingPhase,
                   viewVars, wsRef>>

\* ws.onclose of the phase-1 socket c: loading is the value of the render
\* in which generateInsights ran
Phase1OnClose(c) ==
    /\ progress' = IF conns[c].loading THEN Append(progress, "Connection closed")
                   ELSE progress
    /\ wsRef' = None
    /\ UNCHANGED <<videoUrl, videoId, resultVars, quizVars, loading, loadingPhase,
                   error, progressPercent, expandedSections, activePhase>>

\* WebSocket.close(): a socket that is connecting or open starts closing
CloseSocket(cs, c) ==
    IF cs[c].status \in {"connecting", "open"}
    THEN [cs EXCEPT ![c].status = "closing"] ELSE cs

cancelWebSocket ==
    /\ conns' = IF wsRef # None THEN CloseSocket(conns, Val(wsRef)) ELSE conns
    /\ wsRef' = None
    /\ loading' = FALSE
    /\ loadingPhase' = None
    /\ progress' = Append(progress, "Cancelled by user")
    /\ UNCHANGED <<videoUrl, videoId, resultVars, quizVars, error, progressPercent,
                   expandedSections, activePhase, received>>

(***************************************************************************)
(* Phases 2..5: startPhase2, startPhase3, startPhase4 and startPhase5 have *)
(* one shape; what differs is tabulated per phase.                         *)
(***************************************************************************)
PhaseName(n) == CASE n = 2 -> "Phase 2" [] n = 3 -> "Phase 3"
                  [] n = 4 -> "Phase 4" [] n = 5 -> "Phase 5"

\* startPhase3 requiring the video id where it requires notes
PhaseInput_C3(n) == CASE n = 2 -> videoId [] n = 3 -> videoId
                      [] n = 4 -> phase2 [] n = 5 -> notes

\* the state each handler requires before it opens its socket
PhaseInput(n) == CASE n = 2 -> videoId [] n = 3 -> notes
                   [] n = 4 -> phase2 [] n = 5 -> notes

\* the error each handler stores when that state is missing
PhaseGuardError(n) ==
    CASE n = 2 -> "No video ID available. Please run Phase 1 first."
      [] n = 3 -> "No key concepts available. Please run Phase 1 first."
      [] n = 4 -> "No thesis or arguments available. Please run Phase 2 first."
      [] n = 5 -> "No content available for quiz generation."

PhaseStepId(n) == CASE n = 2 -> "thesis_argument_extractor"
                    [] n = 3 -> "connections_extractor"
                    [] n = 4 -> "claim_verifier" [] n = 5 -> "quiz_generator"

PhaseStartedText(n) == CASE n = 2 -> "Extracting thesis & arguments..."
                         [] n = 3 -> "Finding connections between concepts..."
                         [] n = 4 -> "Verifying claims..."
                         [] n = 5 -> "Generating quiz..."

PhaseStepText(n) == CASE n = 2 -> "Analyzing argument chains..."
                      [] n = 3 -> "Discovering concept relationships..."
                      [] n = 4 -> "Fact-checking claims..."
                      [] n = 5 -> "Crafting quiz questions..."

PhaseOutputText(n) == CASE n = 2 -> "Thesis & argument chains received"
                        [] n = 3 -> "Connections discovered"
                        [] n = 4 -> "Claims verified"
                        [] n = 5 -> "Quiz generated"

PhaseCompleteText(n) == CASE n = 2 -> "Phase 2 complete - Thesis & arguments ready!"
                          [] n = 3 -> "Phase 3 complete - Connections ready!"
                          [] n = 4 -> "Phase 4 complete - Verification ready!"
                          [] n = 5 -> "Phase 5 complete - Quiz ready!"

PhaseSection(n) == CASE n = 1 -> "concepts" [] n = 2 -> "thesis"
                     [] n = 3 -> "connections" [] n = 4 -> "claims" [] n = 5 -> "quiz"

\* setPhase2 .. setPhase5: store v in the slot of phase n
SetPhaseResult(n, v) ==
    /\ phase2' = IF n = 2 THEN v ELSE phase2
    /\ phase3' = IF n = 3 THEN v ELSE phase3
    /\ phase4' = IF n = 4 THEN v ELSE phase4
    /\ phase5' = IF n = 5 THEN v ELSE phase5

\* the body of startPhase<n> without setActivePhase(n)
StartPhaseBody_C30(n, throws) ==
    IF PhaseInput(n) = None
    THEN /\ error' = Some(PhaseGuardError(n))
         /\ UNCHANGED <<videoUrl, videoId, resultVars, quizVars, loading,
                        loadingPhase, viewVars, wsRef, conns, received>>
    ELSE /\ UNCHANGED activePhase
         /\ IF n = 5
            THEN quizAnswers' = {} /\ quizSubmitted' = FALSE /\ quizScore' = None
            ELSE UNCHANGED quizVars
         /\ progress' = Append(progress, "Starting " \o PhaseName(n) \o "...")
         /\ progressPercent' = 0
         /\ UNCHANGED <<videoUrl, videoId, resultVars, loading, expandedSections,
                        received>>
         /\ IF throws
            THEN /\ error' = Some("Failed to connect to " \o PhaseName(n))
                 /\ loadingPhase' = None
                 /\ UNCHANGED <<wsRef, conns>>
            ELSE /\ loadingPhase' = Some(n)
                 /\ conns' = Append(conns, NewWebSocket(n))
                 /\ wsRef' = Some(Len(conns) + 1)
                 /\ UNCHANGED error

\* the body of startPhase<n>; throws: the WebSocket constructor throws
StartPhaseBody(n, throws) ==
    IF PhaseInput(n) = None
    THEN /\ error' = Some(PhaseGuardError(n))
         /\ UNCHANGED <<videoUrl, videoId, resultVars, quizVars, loading,
                        loadingPhase, viewVars, wsRef, conns, received>>
    ELSE /\ activePhase' = n
         /\ IF n = 5
            THEN quizAnswers' = {} /\ quizSubmitted' = FALSE /\ quizScore' = None
            ELSE UNCHANGED quizVars
         /\ progress' = Append(progress, "Starting " \o PhaseName(n) \o "...")
         /\ progressPercent' = 0
         /\ UNCHANGED <<videoUrl, videoId, resultVars, loading, expandedSections,
                        received>>
         /\ IF throws
            THEN /\ error' = Some("Failed to connect to " \o PhaseName(n))
                 /\ loadingPhase' = None
                 /\ UNCHANGED <<wsRef, conns>>
            ELSE /\ loadingPhase' = Some(n)
                 /\ conns' = Append(conns, NewWebSocket(n))
                 /\ wsRef' = Some(Len(conns) + 1)
                 /\ UNCHANGED error

startPhase2(throws) == StartPhaseBody(2, throws)
startPhase3(throws) == StartPhaseBody(3, throws)
startPhase4(throws) == StartPhaseBody(4, throws)
startPhase5(throws) == StartPhaseBody(5, throws)

\* ws.onopen of the socket of phase n
PhaseOnOpen(n) ==
    /\ progress' = Append(progress, "Connected to " \o PhaseName(n) \o "...")
    /\ progressPercent' = 10
    /\ UNCHANGED <<videoUrl, videoId, resultVars, quizVars, loading, loadingPhase,
                   error, expandedSections, activePhase, wsRef>>

\* the cases of ws.onmessage of the socket of phase n
PhasePhaseStarted(n, m) ==
    /\ progress' = Append(progress, PhaseStartedText(n))
    /\ progressPercent' = 25
    /\ UNCHANGED <<videoUrl, videoId, resultVars, quizVars, loading,
                   loadingPhase, error, expandedSections, activePhase, wsRef>>

PhaseStepStarted(n, m) ==
    /\ progress' = Append(progress,
           IF m.id = Some(PhaseStepId(n)) THEN PhaseStepText(n)
           ELSE "Starting: " \o (IF m.id = None THEN "undefined" ELSE Val(m.id)))
    /\ progressPercent' = 50
    /\ UNCHANGED <<videoUrl, videoId, resultVars, quizVars, loading,
                   loadingPhase, error, expandedSections, activePhase, wsRef>>

\* workflow_output of a later phase that also calls setLoadingPhase(null)
PhaseWorkflowOutput_C10(n, m) ==
    IF m.event # None
    THEN /\ SetPhaseResult(n, m.event)
         /\ expandedSections' = {PhaseSection(n)}
         /\ progressPercent' = 90
         /\ progress' = Append(progress, PhaseOutputText(n))
         /\ loadingPhase' = None
         /\ UNCHANGED <<videoUrl, videoId, notes, quizVars, loading,
                        error, activePhase, wsRef>>
    ELSE UNCHANGED <<videoUrl, videoId, resultVars, quizVars, loading,
                     loadingPhase, error, viewVars, wsRef>>

PhaseWorkflowOutput(n, m) ==
    IF m.event # None
    THEN /\ SetPhaseResult(n, m.event)
         /\ expandedSections' = {PhaseSection(n)}
         /\ progressPercent' = 90
         /\ progress' = Append(progress, PhaseOutputText(n))
         /\ UNCHANGED <<videoUrl, videoId, notes, quizVars, loading,
                        loadingPhase, error, activePhase, wsRef>>
    ELSE UNCHANGED <<videoUrl, videoId, resultVars, quizVars, loading,
                     loadingPhase, error, viewVars, wsRef>>

PhasePhaseCompleted(n, m) ==
    /\ progress' = Append(progress, PhaseCompleteText(n))
    /\ progressPercent' = 100
    /\ loadingPhase' = None
    /\ UNCHANGED <<videoUrl, videoId, resultVars, quizVars, loading, error,
                   expandedSections, activePhase, wsRef>>

\* case 'error' of a later phase storing data.message as it is
PhaseError_C11(n, m) ==
    /\ error' = IF m.message = None
                THEN Some("An error occurred in " \o PhaseName(n))
                ELSE m.message
    /\ loadingPhase' = None
    /\ UNCHANGED <<videoUrl, videoId, resultVars, quizVars, loading,
                   viewVars, wsRef>>

PhaseError(n, m) ==
    /\ error' = Some(OrElse(m.message, "An error occurred in " \o PhaseName(n)))
    /\ loadingPhase' = None
    /\ UNCHANGED <<videoUrl, videoId, resultVars, quizVars, loading,
                   viewVars, wsRef>>

PhaseStepFailed(n, m) ==
    /\ error' = Some(PhaseName(n) \o " step failed: " \o
                   (IF m.message = None THEN "undefined" ELSE Val(m.message)))
    /\ loadingPhase' = None
    /\ UNCHANGED <<videoUrl, videoId, resultVars, quizVars, loading,
                   viewVars, wsRef>>

\* the switch of a later phase with a default case that logs to the progress
PhaseOnMessage_C13(n, m) ==
    CASE m.type = "phase_started" -> PhasePhaseStarted(n, m)
      [] m.type = "step_started" -> PhaseStepStarted(n, m)
      [] m.type = "workflow_output" -> PhaseWorkflowOutput(n, m)
      [] m.type = "phase_completed" -> PhasePhaseCompleted(n, m)
      [] m.type = "error" -> PhaseError(n, m)
      [] m.type = "step_failed" -> PhaseStepFailed(n, m)
      [] OTHER ->
            /\ progress' = Append(progress, "Event: " \o m.type)
            /\ UNCHANGED <<videoUrl, videoId, resultVars, quizVars, loading,
                           loadingPhase, error, progressPercent, expandedSections,
                           activePhase, wsRef>>

\* ws.onmessage of the socket of phase n: the switch on data.type
PhaseOnMessage(n, m) ==
    CASE m.type = "phase_started" -> PhasePhaseStarted(n, m)
      [] m.type = "step_started" -> PhaseStepStarted(n, m)
      [] m.type = "workflow_output" -> PhaseWorkflowOutput(n, m)
      [] m.type = "phase_completed" -> PhasePhaseCompleted(n, m)
      [] m.type = "error" -> PhaseError(n, m)
      [] m.type = "step_failed" -> PhaseStepFailed(n, m)
      [] OTHER ->
            UNCHANGED <<videoUrl, videoId, resultVars, quizVars, loading,
                        loadingPhase, error, viewVars, wsRef>>

\* ws.onerror of the socket of phase n
PhaseOnError(n) ==
    /\ error' = Some(PhaseName(n) \o " WebSocket connection error.")
    /\ loadingPhase' = None
    /\ UNCHANGED <<videoUrl, videoId, resultVars, quizVars, loading, viewVars, wsRef>>

\* ws.onclose of the socket c of phase n: loadingPhase is the value of the
\* render in which startPhase<n> ran
PhaseOnClose(n, c) ==
    /\ progress' = IF conns[c].loadingPhase = Some(n)
                   THEN Append(progress, PhaseName(n) \o " connection closed")
                   ELSE progress
    /\ UNCHANGED <<videoUrl, videoId, resultVars, quizVars, loading, loadingPhase,
                   error, progressPercent, expandedSections, activePhase, wsRef>>

(***************************************************************************)
(* The handlers of a socket, by the endpoint it was opened on.             *)
(***************************************************************************)
onopen(c) == IF conns[c].phase = 1 THEN Phase1OnOpen ELSE PhaseOnOpen(conns[c].phase)

onmessage(c, m) ==
    IF conns[c].phase = 1 THEN Phase1OnMessage(m) ELSE PhaseOnMessage(conns[c].phase, m)

onerror(c) == IF conns[c].phase = 1 THEN Phase1OnError ELSE PhaseOnError(conns[c].phase)

onclose(c) ==
    IF conns[c].phase = 1 THEN Phase1OnClose(c) ELSE PhaseOnClose(conns[c].phase, c)

(***************************************************************************)
(* The quiz attempt.  quizAnswers, a Map from question index to option     *)
(* index, is the set of its <<index, option>> entries.                     *)
(***************************************************************************)
\* the value of Math.round for 0/0, which is not a number
NaN == -1

\* the score truncated where Math.round rounds
Score_C23(correct, length) ==
    IF length = 0 THEN NaN ELSE (100 * correct) \div length

\* Math.round((correct / length) * 100)
Score(correct, length) ==
    IF length = 0 THEN NaN ELSE (200 * correct + length) \div (2 * length)

\* handleQuizAnswer without the test of quizSubmitted
handleQuizAnswer_C22(questionIndex, answerIndex) ==
    /\ quizAnswers' = {e \in quizAnswers : e[1] # questionIndex}
                          \cup {<<questionIndex, answerIndex>>}
    /\ UNCHANGED <<videoUrl, videoId, resultVars, quizSubmitted, quizScore, loading,
                   loadingPhase, error, viewVars, wsRef, conns, received>>

handleQuizAnswer(questionIndex, answerIndex) ==
    /\ quizAnswers' =
           IF quizSubmitted THEN quizAnswers
           ELSE {e \in quizAnswers : e[1] # questionIndex}
                    \cup {<<questionIndex, answerIndex>>}
    /\ UNCHANGED <<videoUrl, videoId, resultVars, quizSubmitted, quizScore, loading,
                   loadingPhase, error, viewVars, wsRef, conns, received>>

\* submitQuiz that clears the recorded answers once it has scored them
submitQuiz_C24 ==
    IF phase5 = None
    THEN UNCHANGED vars
    ELSE LET questions == Val(phase5).questions
             correct == Cardinality({idx \in 0..(Len(questions) - 1) :
                                        <<idx, questions[idx + 1]>> \in quizAnswers})
         IN  /\ quizScore' = Some(Score(correct, Len(questions)))
             /\ quizSubmitted' = TRUE
             /\ quizAnswers' = {}
             /\ UNCHANGED <<videoUrl, videoId, resultVars, loading,
                            loadingPhase, error, viewVars, wsRef, conns, received>>

\* submitQuiz without its test of phase5
submitQuiz_C36 ==
    LET questions == Field(phase5, "questions", <<>>)
        correct == Cardinality({idx \in 0..(Len(questions) - 1) :
                                   <<idx, questions[idx + 1]>> \in quizAnswers})
    IN  /\ quizScore' = Some(Score(correct, Len(questions)))
        /\ quizSubmitted' = TRUE
        /\ UNCHANGED <<videoUrl, videoId, resultVars, quizAnswers, loading,
                       loadingPhase, error, viewVars, wsRef, conns, received>>

submitQuiz ==
    IF phase5 = None
    THEN UNCHANGED vars
    ELSE LET questions == Val(phase5).questions
             correct == Cardinality({idx \in 0..(Len(questions) - 1) :
                                        <<idx, questions[idx + 1]>> \in quizAnswers})
         IN  /\ quizScore' = Some(Score(correct, Len(questions)))
             /\ quizSubmitted' = TRUE
             /\ UNCHANGED <<videoUrl, videoId, resultVars, quizAnswers, loading,
                            loadingPhase, error, viewVars, wsRef, conns, received>>

\* retakeQuiz that keeps the score
retakeQuiz_C25 ==
    /\ quizAnswers' = {}
    /\ quizSubmitted' = FALSE
    /\ UNCHANGED <<videoUrl, videoId, resultVars, quizScore, loading, loadingPhase,
                   error, viewVars, wsRef, conns, received>>

retakeQuiz ==
    /\ quizAnswers' = {}
    /\ quizSubmitted' = FALSE
    /\ quizScore' = None
    /\ UNCHANGED <<videoUrl, videoId, resultVars, loading, loadingPhase, error,
                   viewVars, wsRef, conns, received>>

(***************************************************************************)
(* Socket events.                                                          *)
(***************************************************************************)
\* the open event of socket c
Open(c) ==
    /\ conns[c].status = "connecting"
    /\ conns' = [conns EXCEPT ![c].status = "open"]
    /\ onopen(c)
    /\ UNCHANGED received

\* the message event of socket c with data m
Deliver(c, m) ==
    /\ conns[c].status = "open"
    /\ onmessage(c, m)
    /\ UNCHANGED conns

Message(c, m) == Deliver(c, m) /\ UNCHANGED received

\* the error event of socket c: the connection failed; its close event follows
Error(c) ==
    /\ conns[c].status \in {"connecting", "open"}
    /\ conns' = [conns EXCEPT ![c].status = "failed"]
    /\ onerror(c)
    /\ UNCHANGED received

\* the close event of socket c: closed by the server, by close(), or after a
\* failure
Close(c) ==
    /\ conns[c].status \in {"open", "closing", "failed"}
    /\ conns' = [conns EXCEPT ![c].status = "closed"]
    /\ onclose(c)
    /\ UNCHANGED received

\* the model's bounds on the sockets created and on the progress log
WithinBounds == Len(conns') <= MaxConns /\ Len(progress') <= MaxProgress

(***************************************************************************)
(* Spec: every operation of the session, called as the handlers are        *)
(* written (their guards are their own early returns), and every socket    *)
(* event, over a backend that sends the messages of a regular run and of   *)
(* a failing one.                                                          *)
(***************************************************************************)
CoreUrls == {UrlNoVideo, UrlShort}

\* the messages sent on a socket of phase n
CoreMessages(n) ==
    IF n = 1
    THEN {WebSocketEvent("step_started", Some("caption_extractor"), None, None, None, None),
          WebSocketEvent("workflow_output", None, None, None, Some(PayloadX), None),
          WebSocketEvent("phase_completed", None, None, Some(PayloadX), None, Some(1)),
          WebSocketEvent("error", None, None, None, None, None)}
    ELSE {WebSocketEvent("workflow_output", None, None, None, Some(PayloadX), None),
          WebSocketEvent("phase_completed", None, None, None, None, Some(n)),
          WebSocketEvent("error", None, None, None, None, None)}

GenerateInsights ==
    \E u \in CoreUrls : generateInsights(u, FALSE) /\ WithinBounds

\* the form submitted with youtu.be/ab
SubmitShort == generateInsights(UrlShort, FALSE) /\ WithinBounds

CancelWebSocket == cancelWebSocket /\ WithinBounds

StartPhase2 == startPhase2(FALSE) /\ WithinBounds

StartPhase3 == startPhase3(FALSE) /\ WithinBounds

StartPhase4 == startPhase4(FALSE) /\ WithinBounds

StartPhase5 == startPhase5(FALSE) /\ WithinBounds

WsOpen == \E c \in 1..Len(conns) : Open(c) /\ WithinBounds

WsMessage ==
    \E c \in 1..Len(conns) : \E m \in CoreMessages(conns[c].phase) :
        Message(c, m) /\ WithinBounds

WsError == \E c \in 1..Len(conns) : Error(c) /\ WithinBounds

WsClose == \E c \in 1..Len(conns) : Close(c) /\ WithinBounds

Next ==
    \/ GenerateInsights
    \/ CancelWebSocket
    \/ StartPhase2
    \/ StartPhase3
    \/ StartPhase4
    \/ StartPhase5
    \/ WsOpen
    \/ WsMessage
    \/ WsError
    \/ WsClose

Spec == Init /\ [][Next]_vars

(***************************************************************************)
(* SpecQuiz: Spec with the operations of the quiz attempt.                 *)
(***************************************************************************)
QuizIndexes == {0}
QuizOptions == {0, 1}

HandleQuizAnswer ==
    \E questionIndex \in QuizIndexes, answerIndex \in QuizOptions :
        handleQuizAnswer(questionIndex, answerIndex)

SubmitQuiz == submitQuiz

RetakeQuiz == retakeQuiz

NextQuiz ==
    \/ Next
    \/ HandleQuizAnswer
    \/ SubmitQuiz
    \/ RetakeQuiz

SpecQuiz == Init /\ [][NextQuiz]_vars

(***************************************************************************)
(* Starting a phase.                                                       *)
(***************************************************************************)
\* a call of startPhase<n>, whether or not the WebSocket constructor throws
StartPhaseCall(n) == StartPhaseBody(n, FALSE) \/ StartPhaseBody(n, TRUE)

\* C2: startPhase2 called while no phase-1 result is stored opens no
\* connection and leaves loadingPhase and activePhase as they were.
C2_StartPhase2NeedsPhase1Result ==
    [][(StartPhaseCall(2) /\ notes = None)
           => /\ conns' = conns
              /\ loadingPhase' = loadingPhase
              /\ activePhase' = activePhase]_vars

\* C3: startPhase3 without a stored phase-1 result, startPhase4 without a
\* stored phase-2 result and startPhase5 without a stored phase-1 result
\* store an error, open no connection, and leave loadingPhase, activePhase,
\* the progress log and the quiz attempt unchanged.
C3_GatedStartFails ==
    [][\A n \in {3, 4, 5} :
          (StartPhaseCall(n) /\ (IF n = 4 THEN phase2 ELSE notes) = None)
              => /\ error' # None
                 /\ conns' = conns
                 /\ wsRef' = wsRef
                 /\ loadingPhase' = loadingPhase
                 /\ activePhase' = activePhase
                 /\ progress' = progress
                 /\ quizVars' = quizVars]_vars

\* C3: startPhase5 has failed for want of a phase-1 result while phase 1 was
\* loading and a quiz answer was recorded.
C3_Witness ==
    /\ error = Some(PhaseGuardError(5))
    /\ notes = None
    /\ loadingPhase = Some(1)
    /\ progress # <<>>
    /\ quizAnswers # {}

\* C4: for n in 2..4, a call of startPhase<n> opens a connection only when
\* phase n-1's result is stored.
C4_StartNeedsPreviousResult ==
    [][\A n \in 2..4 :
          (StartPhaseCall(n) /\ Len(conns') > Len(conns)) => Slot(n - 1) # None]_vars

\* C5: while some other phase is loading, a call of startPhase<n>, n > 1,
\* opens no connection and does not take over loadingPhase.
C5_NoStartWhileLoading ==
    [][\A n \in 2..5 :
          (StartPhaseCall(n) /\ loadingPhase # None /\ loadingPhase # Some(n))
              => conns' = conns /\ loadingPhase' = loadingPhase]_vars

\* C6: at most one socket is open.
C6_AtMostOneOpen == Cardinality(OpenConns) <= 1

(***************************************************************************)
(* SpecScenario: one session on the watch URL whose backend sends the      *)
(* messages of a phase-1 run, in any order; received records them.         *)
(***************************************************************************)
ScenarioConns == 1
ScenarioProgress == 7

Scenario ==
    << WebSocketEvent("started", None, None, None, None, None),
       WebSocketEvent("workflow_started", None, None, None, None, None),
       WebSocketEvent("step_started", Some("caption_extractor"), None, None, None, None),
       WebSocketEvent("step_completed", Some("caption_extractor"), None, None, None, None),
       WebSocketEvent("step_started", Some("key_concepts_extractor"), None, None, None, None),
       WebSocketEvent("phase_completed", None, None, Some(PayloadX), None, Some(1)) >>

ScenarioMessages == {Scenario[i] : i \in 1..Len(Scenario)}

WithinScenario ==
    Len(conns') <= ScenarioConns /\ Len(progress') <= ScenarioProgress

ScenarioSubmit == generateInsights(UrlWatch, FALSE) /\ WithinScenario

ScenarioOpen == \E c \in 1..Len(conns) : Open(c) /\ WithinScenario

ScenarioMessage ==
    \E c \in 1..Len(conns) : \E m \in ScenarioMessages :
        /\ ~conns[c].stale
        /\ Deliver(c, m)
        /\ received' = Append(received, m)
        /\ WithinScenario

NextScenario ==
    \/ ScenarioSubmit
    \/ ScenarioOpen
    \/ ScenarioMessage

SpecScenario == Init /\ [][NextScenario]_vars

\* C1: after the watch URL is submitted, the connection opens and the
\* server sends started, workflow_started, step_started{caption_extractor},
\* step_completed{caption_extractor}, step_started{key_concepts_extractor},
\* phase_completed{phase 1, output with the one concept "X"}, the stored
\* phase-1 result is that output with exactly the concept "X", loadingPhase
\* is empty and activePhase is 1.
C1_EndToEndPhase1 ==
    received = Scenario
        => /\ notes = Some(PayloadX)
           /\ Val(notes).key_concepts = <<"X">>
           /\ loadingPhase = None
           /\ activePhase = 1

\* C1: the scenario has run to its last message.
C1_Witness == received = Scenario /\ videoId = Some(<<"X", "Y", "Z">>)

(***************************************************************************)
(* Results and the connections that deliver them.                          *)
(***************************************************************************)
\* C7: a step that stores a result for phase n is the processing of a
\* message on a connection of phase n opened since the latest accepted URL
\* submission.
C7_ResultFromOwnConnection ==
    [][\A n \in 1..5 :
          (Slot(n)' # Slot(n) /\ Slot(n)' # None)
              => \E c \in 1..Len(conns) :
                    /\ conns[c].phase = n
                    /\ ~conns[c].stale
                    /\ \E m \in CoreMessages(n) : Message(c, m)]_vars

\* C8: once an error or step_failed message is processed on a phase's
\* connection an error is stored, so that phase's result is not stored (at
\* most one of the two is), and loadingPhase is not that phase.
C8_TerminalExclusive ==
    [][\A c \in 1..Len(conns) : \A m \in CoreMessages(conns[c].phase) :
          (Message(c, m) /\ m.type \in {"error", "step_failed"})
              => /\ error' # None
                 /\ Slot(conns[c].phase)' = None
                 /\ loadingPhase' # Some(conns[c].phase)]_vars

\* C9: when the processing of a message on phase n's connection clears
\* loadingPhase for phase n, phase n's result or an error is stored
\* afterwards.
C9_ClearedWithOutcome ==
    [][\A c \in 1..Len(conns) : \A m \in CoreMessages(conns[c].phase) :
          (/\ Message(c, m)
           /\ loadingPhase = Some(conns[c].phase)
           /\ loadingPhase' = None)
              => (Slot(conns[c].phase)' # None \/ error' # None)]_vars

(***************************************************************************)
(* SpecResults: sessions whose backend sends result messages of every     *)
(* type, with and without a payload under event, under output, and with    *)
(* the phase numbers 1 and 2 or none, on the sockets of phases 1, 2, 5.    *)
(***************************************************************************)
ResultTypes == {"workflow_output", "completed", "phase_output", "phase_completed"}

ResultMessages ==
    {WebSocketEvent(t, None, None, out, ev, ph) :
        t \in ResultTypes, out \in {None, Some(PayloadY)},
        ev \in {None, Some(PayloadX)}, ph \in {None, Some(1), Some(2)}}

WsResultMessage ==
    \E c \in 1..Len(conns) : \E m \in ResultMessages :
        Message(c, m) /\ WithinBounds

NextResults ==
    \/ SubmitShort
    \/ StartPhase2
    \/ StartPhase5
    \/ WsOpen
    \/ WsResultMessage

SpecResults == Init /\ [][NextResults]_vars

\* the payload a message carries
Payload(m) == IF m.output # None THEN m.output ELSE m.event

EventResults ==
    {m \in ResultMessages :
        m.event # None /\ m.type \in {"workflow_output", "completed"}}

\* the phase_completed messages
Completions == {m \in ResultMessages : m.type = "phase_completed"}

\* phase_output messages for phase 2 with a payload under output
Phase2Outputs ==
    {m \in ResultMessages :
        m.type = "phase_output" /\ m.phase = Some(2) /\ m.output # None}

ErrorMessages ==
    {WebSocketEvent(ty, None, t, None, None, None) :
        ty \in {"error", "step_failed"}, t \in TextOpts}

WsErrorMessage ==
    \E c \in 1..Len(conns) :
        \E m \in ErrorMessages
                 \cup {WebSocketEvent("workflow_output", None, None, None,
                                      Some(PayloadX), None)} :
            Message(c, m) /\ WithinBounds

NextErrors ==
    \/ SubmitShort
    \/ StartPhase2
    \/ StartPhase3
    \/ StartPhase4
    \/ StartPhase5
    \/ WsOpen
    \/ WsErrorMessage

SpecErrors == Init /\ [][NextErrors]_vars

\* C11: processing an error or step_failed message on the connection of any
\* phase stores a non-empty error message, clears loadingPhase and leaves
\* the five result slots unchanged.
C11_ErrorMessageStored ==
    [][\A c \in OpenConns : \A m \in ErrorMessages :
          Message(c, m)
              => /\ error' # None
                 /\ Val(error') # ""
                 /\ loadingPhase' = None
                 /\ resultVars' = resultVars]_vars

\* C11: phase 2's connection delivered its result and then an error message
\* without text: the error is stored, the result is still there and no
\* phase is loading.
C11_Witness ==
    /\ error = Some("An error occurred in Phase 2")
    /\ phase2 = Some(PayloadX)
    /\ loadingPhase = None

(***************************************************************************)
(* The key a result payload arrives under.                                 *)
(***************************************************************************)
\* the result messages in whose case a handler of phase n stores a result
ResultBearing(n, m) ==
    \/ m.type = "workflow_output"
    \/ n = 1 /\ m.type = "completed"
    \/ n = 1 /\ m.type = "phase_completed" /\ m.phase = Some(1)

\* C12: for every phase and every result message type whose case stores
\* that phase's result, the payload is stored whether it arrives under
\* output or under event.
C12_EitherKeyAccepted ==
    [][\A c \in OpenConns : \A m \in ResultMessages :
          (Message(c, m) /\ ResultBearing(conns[c].phase, m) /\ Payload(m) # None)
              => /\ Slot(conns[c].phase)' # None
                 /\ Slot(conns[c].phase)' \in {m.output, m.event}]_vars

(***************************************************************************)
(* SpecUnknown: sessions with a quiz attempt whose backend also sends      *)
(* messages of an unrecognized type, with and without the fields the       *)
(* handlers read; received records the unrecognized messages processed.    *)
(***************************************************************************)
MaxReceived == 1

UnknownMessages ==
    {WebSocketEvent("something_unrecognized", None, None, None, None, None),
     WebSocketEvent("something_unrecognized", None, Some("boom"), None, None, None),
     WebSocketEvent("something_unrecognized", None, None, None, Some(PayloadX), Some(2)),
     WebSocketEvent("something_unrecognized", None, None, Some(PayloadY), None, Some(1))}

WsUnknownMessage ==
    \E c \in 1..Len(conns) : \E m \in UnknownMessages :
        /\ Deliver(c, m)
        /\ received' = Append(received, m)
        /\ Len(received') <= MaxReceived
        /\ WithinBounds

NextUnknown ==
    \/ SubmitShort
    \/ StartPhase2
    \/ StartPhase3
    \/ StartPhase4
    \/ StartPhase5
    \/ WsOpen
    \/ WsMessage
    \/ WsUnknownMessage
    \/ HandleQuizAnswer

SpecUnknown == Init /\ [][NextUnknown]_vars

\* C13: processing a message of an unrecognized type, on the connection of
\* any phase in any state, leaves the results, loadingPhase, loading,
\* activePhase, the error, the progress log, the progress percent, the
\* expanded sections and the quiz attempt unchanged.
C13_UnknownTypeIgnored ==
    [][\A c \in OpenConns : \A m \in UnknownMessages :
          Deliver(c, m)
              => UNCHANGED <<resultVars, loadingPhase, loading, activePhase, error,
                             progress, progressPercent, expandedSections,
                             quizVars>>]_vars

\* C13: an unrecognized message was processed while phase 5 was loading
\* with a result, an error and a quiz answer stored.
C13_Witness ==
    /\ received # <<>>
    /\ received[Len(received)].type = "something_unrecognized"
    /\ loadingPhase = Some(5)
    /\ notes # None
    /\ error # None
    /\ quizAnswers # {}

(***************************************************************************)
(* SpecProgress: sessions whose backend sends progress messages of every   *)
(* type, with the step ids and phase numbers the handlers distinguish.     *)
(***************************************************************************)
ProgressMessages ==
    {WebSocketEvent("started", None, None, None, None, None),
     WebSocketEvent("workflow_started", None, None, None, None, None),
     WebSocketEvent("step_started", None, None, None, None, None),
     WebSocketEvent("step_started", Some("caption_extractor"), None, None, None, None),
     WebSocketEvent("step_completed", Some("caption_extractor"), None, None, None, None),
     WebSocketEvent("phase_started", None, None, None, None, None),
     WebSocketEvent("phase_started", None, None, None, None, Some(2))}

WsProgressMessage ==
    \E c \in 1..Len(conns) :
        \E m \in ProgressMessages
                 \cup {WebSocketEvent("workflow_output", None, None, None,
                                      Some(PayloadX), None),
                       WebSocketEvent("error", None, None, None, None, None)} :
            Message(c, m) /\ WithinBounds

NextProgress ==
    \/ SubmitShort
    \/ StartPhase2
    \/ StartPhase5
    \/ WsOpen
    \/ WsProgressMessage

SpecProgress == Init /\ [][NextProgress]_vars

\* C14: each started, workflow_started, step_started, step_completed or
\* phase_started message, on the connection of any phase, appends exactly
\* one entry to the progress log.
C14_ProgressAppendsOne ==
    \A c \in OpenConns : \A m \in ProgressMessages :
        ~ENABLED (/\ Message(c, m)
                  /\ ~(/\ Len(progress') = Len(progress) + 1
                       /\ SubSeq(progress', 1, Len(progress)) = progress))

\* C15 as stated: processing a progress message on any connection leaves
\* loadingPhase, loading, the error and the five result slots unchanged.
C15_ProgressChangesNoOutcome ==
    [][\A c \in OpenConns : \A m \in ProgressMessages :
          Message(c, m) => UNCHANGED <<loadingPhase, loading, error, resultVars>>]_vars

\* C15 amended: processing a progress message on any connection leaves
\* loading, the error and the five result slots unchanged, and leaves
\* loadingPhase unchanged except that phase_started for phase 2 on phase 1's
\* connection sets loadingPhase to 2.
C15_ProgressKeepsOutcome ==
    [][\A c \in OpenConns : \A m \in ProgressMessages :
          Message(c, m)
              => /\ UNCHANGED <<loading, error, resultVars>>
                 /\ loadingPhase' =
                        IF /\ conns[c].phase = 1
                           /\ m.type = "phase_started"
                           /\ m.phase = Some(2)
                        THEN Some(2) ELSE loadingPhase]_vars

\* C15: phase 1's connection delivered phase_started for phase 2 while
\* phase 1 was loading with its result stored.
C15_Witness ==
    /\ progress # <<>>
    /\ progress[Len(progress)] = "Phase 2: Extracting thesis & arguments..."
    /\ loadingPhase = Some(2)
    /\ loading
    /\ notes # None
    /\ \A c \in 1..Len(conns) : conns[c].phase = 1

(***************************************************************************)
(* Closing and cancelling.                                                 *)
(***************************************************************************)
\* C16: when the connection of the latest attempt of a phase closes while
\* that phase is loading, a "connection closed" entry is appended to the
\* progress log.
C16_CloseWhileLoadingLogged ==
    [][\A c \in 1..Len(conns) :
          (/\ Close(c)
           /\ ~conns[c].stale
           /\ loadingPhase = Some(conns[c].phase)
           /\ conns[c].phase = 1 => loading)
              => /\ Len(progress') = Len(progress) + 1
                 /\ progress'[Len(progress')] \in
                        {"Connection closed",
                         PhaseName(conns[c].phase) \o " connection closed"}]_vars

\* C17: after cancelWebSocket, in any state, loadingPhase is empty, loading
\* is false, a "cancelled" entry has been appended to the progress log and
\* the connection of the latest attempt of the phase that was loading is no
\* longer connecting or open (so that it delivers no result later).
C17_CancelStopsAttempt ==
    [][cancelWebSocket
          => /\ loadingPhase' = None
             /\ ~loading'
             /\ progress' = Append(progress, "Cancelled by user")
             /\ \A c \in 1..Len(conns) :
                    (~conns[c].stale /\ loadingPhase = Some(conns[c].phase))
                        => conns'[c].status \notin {"connecting", "open"}]_vars

\* C18: cancelWebSocket called again where cancelWebSocket has left the
\* connection reference, loadingPhase, loading and the progress log leaves
\* the four of them as they are.
C18_CancelIdempotent ==
    [][(/\ cancelWebSocket
        /\ wsRef = None
        /\ loadingPhase = None
        /\ ~loading
        /\ progress # <<>>
        /\ progress[Len(progress)] = "Cancelled by user")
          => UNCHANGED <<wsRef, loadingPhase, loading, progress>>]_vars

\* C19: a transport error on the connection of phase n (1 to 5) stores an
\* error message, and afterwards loadingPhase is not n.
C19_TransportErrorClearsPhase ==
    [][\A c \in 1..Len(conns) :
          Error(c) => /\ error' # None
                      /\ loadingPhase' # Some(conns[c].phase)]_vars

(***************************************************************************)
(* SpecSubmit: the form submitted with empty, blank, unusable and valid    *)
(* URLs, in a session that has results, quiz answers and a progress log.   *)
(***************************************************************************)
\* URLs that are empty after trimming or that no pattern matches
InvalidUrls == {<<>>, UrlBlank, UrlNoVideo, UrlInvalid, UrlNoId}

SubmitUrl ==
    \E u \in InvalidUrls \cup {UrlShort} :
        generateInsights(u, FALSE) /\ WithinBounds

NextSubmit ==
    \/ SubmitUrl
    \/ StartPhase2
    \/ WsOpen
    \/ WsMessage
    \/ HandleQuizAnswer

SpecSubmit == Init /\ [][NextSubmit]_vars

\* C20: submitting an empty or white-space-only URL, or a URL from which no
\* video id can be extracted, stores an error, creates no socket and leaves
\* videoId, the five results, loadingPhase, activePhase, the progress log
\* and the quiz state unchanged.
C20_InvalidUrlRejected ==
    [][\A u \in InvalidUrls : \A throws \in BOOLEAN :
          generateInsights(u, throws)
              => /\ error' # None
                 /\ conns' = conns
                 /\ wsRef' = wsRef
                 /\ UNCHANGED <<videoId, resultVars, loadingPhase,
                                activePhase, progress, quizVars>>]_vars

\* an unusable URL was submitted in a session that has a video id, notes,
\* a loading phase, a progress log and a quiz answer
C20_Witness ==
    /\ videoUrl \in InvalidUrls
    /\ error \in {Some("Please enter a YouTube URL"), Some("Invalid YouTube URL")}
    /\ videoId # None
    /\ notes # None
    /\ loadingPhase = Some(2)
    /\ progress # <<>>
    /\ quizAnswers # {}
    /\ conns # <<>>

(***************************************************************************)
(* SpecConnect: URL submissions and the quiz phase, where new WebSocket    *)
(* may throw in generateInsights and in startPhase5 (their catch blocks).  *)
(***************************************************************************)
ConnectSubmit ==
    \E throws \in BOOLEAN : generateInsights(UrlShort, throws) /\ WithinBounds

ConnectStartPhase5 == \E throws \in BOOLEAN : startPhase5(throws) /\ WithinBounds

NextConnect ==
    \/ ConnectSubmit
    \/ ConnectStartPhase5
    \/ WsOpen
    \/ WsMessage
    \/ HandleQuizAnswer

SpecConnect == Init /\ [][NextConnect]_vars

\* the session right after its reset: no results, no quiz attempt, an empty
\* progress log, phase 1 loading and active
Fresh ==
    /\ notes = None /\ phase2 = None /\ phase3 = None
    /\ phase4 = None /\ phase5 = None
    /\ quizAnswers = {} /\ ~quizSubmitted /\ quizScore = None
    /\ progress = <<>>
    /\ loadingPhase = Some(1)
    /\ activePhase = 1

\* C21 as stated: right after an accepted URL submission the five results
\* are empty, the quiz attempt is reset, the error is empty, the progress
\* log is empty and loadingPhase = activePhase = 1.
C21_SubmissionFresh ==
    [][\A throws \in BOOLEAN :
          generateInsights(UrlShort, throws) => Fresh' /\ error' = None]_vars

\* C21, amended: right after an accepted URL submission the five results
\* are empty, the quiz attempt is reset, the progress log is empty and
\* loadingPhase = activePhase = 1; the error is empty when the socket was
\* created, and is the failure message when new WebSocket threw.
C21_SubmissionResets ==
    [][\A throws \in BOOLEAN :
          generateInsights(UrlShort, throws)
              => /\ Fresh'
                 /\ error' = IF throws THEN Some("Failed to connect via WebSocket")
                             ELSE None]_vars

\* C21: a URL was accepted in a session that had notes and a phase-5
\* socket, and the session is fresh
C21_Witness ==
    /\ Fresh
    /\ videoId # None
    /\ \E c \in 1..Len(conns) : conns[c].phase = 5 /\ conns[c].stale

(***************************************************************************)
(* SpecScore: the quiz.  Phase 1 delivers notes, phase 5 delivers a quiz   *)
(* of three or four questions, and the user answers, submits and retakes.  *)
(***************************************************************************)
\* quiz results; questions lists the correct_answer of each question
Quiz3 == [key_concepts |-> <<"Q">>, questions |-> <<1, 0, 1>>]
Quiz4 == [key_concepts |-> <<"Q">>, questions |-> <<0, 1, 1, 0>>]

\* the questions of the longest quiz, by index
ScoreIndexes == {0, 1, 2, 3}

ScoreMessages(n) ==
    IF n = 1
    THEN {WebSocketEvent("workflow_output", None, None, None, Some(PayloadX), None)}
    ELSE {WebSocketEvent("workflow_output", None, None, None, Some(q), None) :
             q \in {Quiz3, Quiz4}}

WsScoreMessage ==
    \E c \in 1..Len(conns) : \E m \in ScoreMessages(conns[c].phase) :
        Message(c, m) /\ WithinBounds

ScoreAnswer ==
    \E questionIndex \in ScoreIndexes, answerIndex \in QuizOptions :
        handleQuizAnswer(questionIndex, answerIndex)

NextScore ==
    \/ SubmitShort
    \/ StartPhase5
    \/ WsOpen
    \/ WsScoreMessage
    \/ ScoreAnswer
    \/ SubmitQuiz
    \/ RetakeQuiz

SpecScore == Init /\ [][NextScore]_vars

\* C22: handleQuizAnswer called after the quiz has been submitted leaves
\* the recorded answers, the submitted flag and the score unchanged, for
\* every question index and option.
C22_AnswerAfterSubmitIgnored ==
    [][\A questionIndex \in ScoreIndexes, answerIndex \in QuizOptions :
          (handleQuizAnswer(questionIndex, answerIndex) /\ quizSubmitted)
              => UNCHANGED quizVars]_vars

\* C22: a quiz of four questions has been submitted with two answers
\* recorded, so that an answer to a third question would be a new entry
C22_Witness ==
    /\ quizSubmitted
    /\ phase5 = Some(Quiz4)
    /\ Cardinality(quizAnswers) = 2
    /\ quizScore = Some(50)

\* C23: submitQuiz with a quiz stored sets quizSubmitted and sets quizScore
\* to 100 * correct / total rounded to the nearest integer, where correct
\* counts the questions whose recorded answer is correct_answer (a question
\* without an answer is not correct): 100 when all are correct, 0 when none
\* is, 50 for two of four.
C23_ScoreIsRoundedShare ==
    [][(submitQuiz /\ phase5 # None)
          => LET questions == Val(phase5).questions
                 total == Len(questions)
                 correct ==
                     Cardinality({i \in 1..total :
                                     \E e \in quizAnswers :
                                         e[1] = i - 1 /\ e[2] = questions[i]})
                 diff == Val(quizScore') * total - 100 * correct
             IN  /\ quizSubmitted'
                 /\ quizScore' # None
                 /\ 2 * diff <= total /\ -2 * diff <= total
                 /\ correct = total => quizScore' = Some(100)
                 /\ correct = 0 => quizScore' = Some(0)
                 /\ (total = 4 /\ correct = 2) => quizScore' = Some(50)]_vars

\* C23: a quiz of three questions has been submitted with two correct
\* answers and the third question unanswered: the score is 67
C23_Witness ==
    /\ quizSubmitted
    /\ phase5 = Some(Quiz3)
    /\ quizAnswers = {<<0, 1>>, <<1, 0>>}
    /\ quizScore = Some(67)

(***************************************************************************)
(* SpecResubmit: SpecScore where the backend sends nothing more once the   *)
(* quiz has been submitted, so that between two submissions of one attempt *)
(* there are only calls of handleQuizAnswer.                               *)
(***************************************************************************)
WsQuizDelivery == ~quizSubmitted /\ WsScoreMessage

NextResubmit ==
    \/ SubmitShort
    \/ StartPhase5
    \/ WsOpen
    \/ WsQuizDelivery
    \/ ScoreAnswer
    \/ SubmitQuiz
    \/ RetakeQuiz

SpecResubmit == Init /\ [][NextResubmit]_vars

\* C24: submitQuiz called again after the quiz has been submitted, with
\* any calls of handleQuizAnswer in between, leaves the score and the
\* recorded answers as the first call left them.
C24_SubmitIdempotent ==
    [][(submitQuiz /\ quizSubmitted /\ phase5 # None)
          => UNCHANGED <<quizScore, quizAnswers, quizSubmitted>>]_vars

\* C24: the quiz of four questions has been submitted with one correct
\* answer among four; further answers and submissions are possible
C24_Witness ==
    /\ quizSubmitted
    /\ phase5 = Some(Quiz4)
    /\ quizAnswers = {<<0, 0>>, <<1, 0>>, <<2, 0>>, <<3, 1>>}
    /\ quizScore = Some(25)
    /\ ENABLED SubmitQuiz
    /\ ENABLED ScoreAnswer

(***************************************************************************)
(* SpecRetake: the quiz taken, retaken and regenerated: phase 5 is started *)
(* again (new WebSocket may throw) while a quiz is stored and submitted.   *)
(***************************************************************************)
RetakeConns == 3
RetakeProgress == 7

WithinRetake == Len(conns') <= RetakeConns /\ Len(progress') <= RetakeProgress

RetakeSubmitUrl == generateInsights(UrlShort, FALSE) /\ WithinRetake

RetakeStartPhase5 == \E throws \in BOOLEAN : startPhase5(throws) /\ WithinRetake

RetakeOpen == \E c \in 1..Len(conns) : Open(c) /\ WithinRetake

RetakeMessage ==
    \E c \in 1..Len(conns) :
        /\ Message(c, WebSocketEvent("workflow_output", None, None, None,
                                     Some(IF conns[c].phase = 1 THEN PayloadX
                                          ELSE PayloadY), None))
        /\ WithinRetake

NextRetake ==
    \/ RetakeSubmitUrl
    \/ RetakeStartPhase5
    \/ RetakeOpen
    \/ RetakeMessage
    \/ HandleQuizAnswer
    \/ SubmitQuiz
    \/ RetakeQuiz

SpecRetake == Init /\ [][NextRetake]_vars

\* C25: after retakeQuiz, and after a call of startPhase5 that passes its
\* guard, no answer is recorded, the quiz is not submitted and the score is
\* unset.
C25_QuizResetOnRetakeAndRestart ==
    [][(\/ retakeQuiz
        \/ notes # None /\ \E throws \in BOOLEAN : startPhase5(throws))
           => quizAnswers' = {} /\ ~quizSubmitted' /\ quizScore' = None]_vars

\* C25: phase 5 has been started a second time while its first quiz is
\* stored, and the quiz attempt is empty
C25_Witness ==
    /\ phase5 = Some(PayloadY)
    /\ \E c, d \in 1..Len(conns) :
          /\ c < d
          /\ conns[c].phase = 5 /\ ~conns[c].stale
          /\ conns[d].phase = 5 /\ conns[d].status = "connecting"
    /\ loadingPhase = Some(5)
    /\ quizAnswers = {} /\ ~quizSubmitted /\ quizScore = None

(***************************************************************************)
(* The active phase.                                                       *)
(***************************************************************************)
\* C26: activePhase is the phase of the latest start or completion: every
\* accepted URL submission leaves activePhase = 1, every start of phase n
\* that passes its guard leaves activePhase = n, and every message that
\* stores phase n's result or is phase n's phase_completed leaves
\* activePhase = n.
C26_ActivePhaseIsLatest ==
    [][/\ \A u \in CoreUrls :
             (generateInsights(u, FALSE) /\ extractVideoId(u) # None)
                 => activePhase' = 1
       /\ \A n \in 2..5 :
             (StartPhaseCall(n) /\ PhaseInput(n) # None) => activePhase' = n
       /\ \A c \in 1..Len(conns) : \A m \in CoreMessages(conns[c].phase) :
             LET n == conns[c].phase
                 \* the phase m completes on socket c, or 0
                 completed ==
                     IF m.type = "phase_completed"
                     THEN (IF n = 1 THEN Val(m.phase) ELSE n)
                     ELSE IF m.type = "workflow_output" /\ m.event # None
                     THEN n
                     ELSE 0
             IN  (Message(c, m) /\ completed # 0) => activePhase' = completed]_vars

\* C27: a message on the socket of phase m does not change loadingPhase
\* while loadingPhase holds another phase.
C27_OtherPhaseKeepsLoading ==
    [][\A c \in 1..Len(conns) : \A m \in CoreMessages(conns[c].phase) :
          (/\ Message(c, m)
           /\ loadingPhase # None
           /\ loadingPhase # Some(conns[c].phase))
              => loadingPhase' = loadingPhase]_vars

(***************************************************************************)
(* The request of phase 5.                                                 *)
(***************************************************************************)
\* C28: the request of a socket created by startPhase5 has no thesis and no
\* argument_chains key when no phase-2 result is stored, and no connections
\* key when no phase-3 result is stored.
C28_AbsentFieldsOmitted ==
    [][(startPhase5(FALSE) /\ notes # None)
          => LET request == conns'[Len(conns')].request
             IN  /\ phase2 = None
                       => {"thesis", "argument_chains"} \cap DOMAIN request = {}
                 /\ phase3 = None => "connections" \notin DOMAIN request]_vars

(***************************************************************************)
(* SpecExtract: URLs of the four recognised forms, with and without a      *)
(* scheme and host prefix and with text after the id, and URLs that match  *)
(* no pattern, submitted through generateInsights.                         *)
(***************************************************************************)
ExtractConns == 1

ExtractHeads == {<<>>, <<"h", "t", "t", "p", "s", ":", "/", "/", "w", "w", "w", ".">>}
ExtractForms == {WatchLit, ShortLit, EmbedLit, ShortsLit}
ExtractIds == {<<"a", "b">>, <<"X", "-", "_", "9">>}
ExtractTails == {<<>>, <<"&", "t", "=", "1">>, <<"?", "s", "i", "=", "1">>,
                 <<"#", "t">>, <<"\n">>}

\* URLs in which no pattern is followed by an id
NoMatchUrls ==
    {UrlNoVideo, UrlInvalid, UrlNoId,
     WatchLit \o <<"&", "t", "=", "1">>,
     <<"y", "o", "u", "t", "u", "b", "e", ".", "c", "o", "m", "/", "w", "a", "t", "c", "h", "?", "x", "=", "a", "b">>,
     <<"y", "o", "u", "t", "u", "b", "e", ".", "c", "o", "m", "/", "s", "h", "o", "r", "t", "s", "?", "a", "b">>}

ExtractUrls ==
    {h \o f \o i \o t : h \in ExtractHeads, f \in ExtractForms,
                        i \in ExtractIds, t \in ExtractTails}
        \cup NoMatchUrls

ExtractSubmit ==
    \E u \in ExtractUrls :
        generateInsights(u, FALSE) /\ Len(conns') <= ExtractConns

NextExtract ==
    \/ ExtractSubmit
    \/ WsOpen
    \/ WsClose

SpecExtract == Init /\ [][NextExtract]_vars

\* C29: for a URL of the watch?v=, youtu.be/, embed/ or shorts/ form with
\* id X, whatever precedes the form and whatever follows the id after &, ?,
\* # or a line break, generateInsights stores X as the video id; for a URL
\* that matches no pattern it stores the invalid-URL error and keeps the
\* video id.
C29_ExtractsTheId ==
    [][/\ \A h \in ExtractHeads, f \in ExtractForms,
             i \in ExtractIds, t \in ExtractTails :
             (videoUrl' = h \o f \o i \o t /\ generateInsights(videoUrl', FALSE))
                 => videoId' = Some(i)
       /\ \A u \in NoMatchUrls :
             (videoUrl' = u /\ generateInsights(u, FALSE))
                 => /\ error' = Some("Invalid YouTube URL")
                    /\ videoId' = videoId]_vars

\* C29: the id of a shorts URL with a host prefix and a fragment is stored
C29_Witness ==
    /\ videoUrl = <<"h", "t", "t", "p", "s", ":", "/", "/", "w", "w", "w", ".">>
                      \o ShortsLit \o <<"X", "-", "_", "9">> \o <<"#", "t">>
    /\ videoId = Some(<<"X", "-", "_", "9">>)
    /\ loadingPhase = Some(1)
    /\ conns # <<>>

(***************************************************************************)
(* SpecStart: the later phases started where new WebSocket may throw, with *)
(* results and errors stored by the messages of phase 1's socket (which    *)
(* also carries phase 2's result) and of the later sockets.                *)
(***************************************************************************)
StartMessages(n) ==
    IF n = 1
    THEN {WebSocketEvent("workflow_output", None, None, None, Some(PayloadX), None),
          WebSocketEvent("phase_output", None, None, Some(PayloadY), None, Some(2)),
          WebSocketEvent("error", None, None, None, None, None)}
    ELSE {WebSocketEvent("workflow_output", None, None, None, Some(PayloadX), None),
          WebSocketEvent("error", None, None, None, None, None)}

TryStartPhase2 == \E throws \in BOOLEAN : startPhase2(throws) /\ WithinBounds

TryStartPhase3 == \E throws \in BOOLEAN : startPhase3(throws) /\ WithinBounds

TryStartPhase4 == \E throws \in BOOLEAN : startPhase4(throws) /\ WithinBounds

WsStartMessage ==
    \E c \in 1..Len(conns) : \E m \in StartMessages(conns[c].phase) :
        Message(c, m) /\ WithinBounds

NextStart ==
    \/ SubmitShort
    \/ TryStartPhase2
    \/ TryStartPhase3
    \/ TryStartPhase4
    \/ ConnectStartPhase5
    \/ WsOpen
    \/ WsStartMessage

SpecStart == Init /\ [][NextStart]_vars

\* C30 as stated: a call of startPhase<n>, n in 2..5, that passes its guard
\* sets loadingPhase and activePhase to n, appends one progress entry, and
\* leaves the five results and the error unchanged.
C30_StartSetsPhase ==
    [][\A n \in 2..5 :
          (StartPhaseCall(n) /\ PhaseInput(n) # None)
              => /\ loadingPhase' = Some(n)
                 /\ activePhase' = n
                 /\ Len(progress') = Len(progress) + 1
                 /\ SubSeq(progress', 1, Len(progress)) = progress
                 /\ resultVars' = resultVars
                 /\ error' = error]_vars

\* C30, amended: a call of startPhase<n>, n in 2..5, that passes its guard
\* sets activePhase to n, appends one progress entry and leaves the five
\* results unchanged; when the socket is created it sets loadingPhase to n
\* and leaves the error unchanged, and when new WebSocket throws it clears
\* loadingPhase and stores the failure as the error.
C30_StartSetsPhaseOrFails ==
    [][\A n \in 2..5 : \A throws \in BOOLEAN :
          (StartPhaseBody(n, throws) /\ PhaseInput(n) # None)
              => /\ activePhase' = n
                 /\ progress' = Append(progress, "Starting " \o PhaseName(n) \o "...")
                 /\ resultVars' = resultVars
                 /\ IF throws
                    THEN /\ loadingPhase' = None
                         /\ error' = Some("Failed to connect to " \o PhaseName(n))
                         /\ conns' = conns
                    ELSE /\ loadingPhase' = Some(n)
                         /\ error' = error
                         /\ Len(conns') = Len(conns) + 1]_vars

\* C30: phase 4 has been started with a phase-2 result and an error stored:
\* it is loading and active, its entry is the last of the log, and the
\* error is still there
C30_Witness ==
    /\ loadingPhase = Some(4)
    /\ activePhase = 4
    /\ phase2 = Some(PayloadY)
    /\ error = Some("An error occurred")
    /\ progress # <<>>
    /\ progress[Len(progress)] = "Starting Phase 4..."
    /\ conns[Len(conns)].phase = 4


(***************************************************************************)
(* The expanded sections                                                   *)
(***************************************************************************)
\* C31: whenever a message stores the result of a phase, that phase's
\* section is among the expanded sections afterwards.
C31_ResultExpandsItsSection ==
    [][\A c \in 1..Len(conns) :
          \A m \in {WebSocketEvent("workflow_output", None, None, None,
                                   Some(p), None) : p \in {PayloadX, PayloadY}} :
              \A n \in 1..5 :
                  (Message(c, m) /\ Slot(n)' = m.event)
                      => PhaseSection(n) \in expandedSections']_vars

(***************************************************************************)
(* SpecClose: every phase over a backend that closes every connection      *)
(* sooner or later, with or without a terminal message before, and whose   *)
(* phase-1 socket also announces and delivers phase 2; the browser         *)
(* dispatches the open and close events of a socket that has them pending. *)
(***************************************************************************)
NextClose ==
    \/ SubmitShort
    \/ CancelWebSocket
    \/ StartPhase2
    \/ StartPhase3
    \/ StartPhase4
    \/ StartPhase5
    \/ WsOpen
    \/ \E c \in 1..Len(conns) :
           \E m \in CoreMessages(conns[c].phase)
                    \cup {WebSocketEvent("phase_started", None, None, None, None,
                                         Some(2)),
                          WebSocketEvent("phase_output", None, None, Some(PayloadY),
                                         None, Some(2))} :
               Message(c, m) /\ WithinBounds
    \/ WsError
    \/ WsClose

SpecClose == Init /\ [][NextClose]_vars /\ WF_vars(WsOpen) /\ WF_vars(WsClose)

\* C32: once the latest connection of the loading phase n is closed,
\* loadingPhase eventually stops being n.
C32_CloseEndsLoading ==
    \A n \in 1..5 :
        (/\ loadingPhase = Some(n)
         /\ conns # <<>>
         /\ conns[Len(conns)].phase = n
         /\ conns[Len(conns)].status = "closed")
            ~> (loadingPhase # Some(n))

\* C33: while a phase is loading, it is the active phase.
C33_LoadingPhaseIsActive ==
    loadingPhase # None => activePhase = Val(loadingPhase)

\* C33: phase 4 is loading and active after phase 2's result arrived on
\* the phase-1 socket, which is still open
C33_Witness ==
    /\ loadingPhase = Some(4)
    /\ activePhase = 4
    /\ phase2 = Some(PayloadY)
    /\ Len(conns) = 2
    /\ conns[1].status = "open"
    /\ conns[2].phase = 4

(***************************************************************************)
(* The loading flag and the connection reference                           *)
(***************************************************************************)
\* C34: loading is true exactly when loadingPhase is 1.
C34_LoadingIffPhase1 ==
    loading <=> loadingPhase = Some(1)

\* C35: while the phase of the latest connection is loading and that
\* connection is open, wsRef refers to it.
C35_RefIsLoadingConnection ==
    (/\ conns # <<>>
     /\ conns[Len(conns)].status = "open"
     /\ loadingPhase = Some(conns[Len(conns)].phase))
        => wsRef = Some(Len(conns))

(***************************************************************************)
(* The quiz attempt across sessions                                        *)
(***************************************************************************)
\* C36: the quiz is submitted exactly when a score is set, and a submitted
\* quiz has a phase-5 result stored.
C36_SubmittedIffScored ==
    /\ quizSubmitted <=> quizScore # None
    /\ quizSubmitted => phase5 # None

\* C36: the stored quiz of two questions is submitted with the first
\* answered correctly and the second unanswered
C36_Witness ==
    /\ quizSubmitted
    /\ quizScore = Some(50)
    /\ phase5 = Some(PayloadY)
    /\ quizAnswers = {<<0, 1>>}

(***************************************************************************)
(* SpecEmptyQuiz: the quiz over a backend whose phase 5 delivers a quiz of *)
(* three questions or a quiz without questions.                            *)
(***************************************************************************)
NextEmptyQuiz ==
    \/ SubmitShort
    \/ StartPhase5
    \/ WsOpen
    \/ \E c \in 1..Len(conns) :
           \E p \in IF conns[c].phase = 1 THEN {PayloadX}
                    ELSE {Quiz3, [Quiz3 EXCEPT !.questions = <<>>]} :
               /\ Message(c, WebSocketEvent("workflow_output", None, None, None,
                                            Some(p), None))
               /\ WithinBounds
    \/ ScoreAnswer
    \/ SubmitQuiz
    \/ RetakeQuiz

SpecEmptyQuiz == Init /\ [][NextEmptyQuiz]_vars

\* C37: a score that is set is an integer from 0 to 100.
C37_ScoreIsPercentage ==
    quizScore # None => Val(quizScore) \in 0..100

=============================================================================
